---- MODULE Spec2Model ----
(***************************************************************************)
(* Model of the http-echo-server request pipeline (src/src/echo-handler.ts *)
(* and the Bun.serve entry point): parseBody, parseQuery, parseHeaders,    *)
(* createEchoResponse and handleRequest, run by one or several concurrent  *)
(* invocations that suspend at the body read.                              *)
(*                                                                         *)
(* JavaScript strings are sequences of one-character strings, so that      *)
(* String.includes, parseInt, JSON.parse, URL parsing and percent-decoding *)
(* are computed character by character.  A value of type `T | null` is the *)
(* empty tuple (null) or a one-element tuple holding the T.                *)
(***************************************************************************)
EXTENDS Integers, Sequences, FiniteSets, TLC

\* ------------------------------------------------------------------ bounds

\* Longest body text enumerated exhaustively over BodyAlphabet.
MaxBody == 3
\* Longest ordered list of query parameters enumerated exhaustively.
MaxParams == 2
\* Number of invocations in flight at once in SpecConc.
MaxInFlight == 2
\* Last instant of the wall clock (new Date()).
MaxClock == 1

\* --------------------------------------------------------- string literals

APPLICATION_JSON ==
    <<"a","p","p","l","i","c","a","t","i","o","n","/","j","s","o","n">>
APPLICATION_FORM ==
    <<"a","p","p","l","i","c","a","t","i","o","n","/","x","-","w","w","w","-","f","o","r","m","-","u","r","l","e","n","c","o","d","e","d">>
CHARSET_PARAM ==
    <<";"," ","c","h","a","r","s","e","t","=","u","t","f","-","8">>
MIXED_CASE_JSON ==
    <<"A","p","p","l","i","c","a","t","i","o","n","/","J","S","O","N">>
UPPER_CASE_FORM ==
    <<"A","P","P","L","I","C","A","T","I","O","N","/","X","-","W","W","W","-","F","O","R","M","-","U","R","L","E","N","C","O","D","E","D">>
TEXT_PLAIN ==
    <<"t","e","x","t","/","p","l","a","i","n">>
CONTENT_TYPE ==
    <<"c","o","n","t","e","n","t","-","t","y","p","e">>
CONTENT_LENGTH ==
    <<"c","o","n","t","e","n","t","-","l","e","n","g","t","h">>
USER_AGENT ==
    <<"u","s","e","r","-","a","g","e","n","t">>
PROTO_KEY ==
    <<"_","_","p","r","o","t","o","_","_">>
HTTP_SCHEME ==
    <<"h","t","t","p",":","/","/">>
LOCALHOST ==
    <<"l","o","c","a","l","h","o","s","t">>
ANY_ADDRESS ==
    <<"0",".","0",".","0",".","0">>
LOOPBACK ==
    <<"1","2","7",".","0",".","0",".","1">>
PATH_TEST ==
    <<"/","t","e","s","t">>
PATH_USERS ==
    <<"/","a","p","i","/","u","s","e","r","s","/","1","2","3">>
NULL_LITERAL ==
    <<"n","u","l","l">>
INVALID_JSON ==
    <<"i","n","v","a","l","i","d"," ","j","s","o","n"," ","{">>
CURL_AGENT ==
    <<"c","u","r","l","/","8",".","0",".","0">>
ECHO_SERVER_ID ==
    <<"h","t","t","p","-","e","c","h","o","-","s","e","r","v","e","r","/","1",".","0",".","0">>
ENCODED_QUERY ==
    <<"?","m","e","s","s","a","g","e","=","h","e","l","l","o","%","2","0","w","o","r","l","d","&","s","y","m","b","o","l","=","%","2","6">>
UPPER ==
    <<"A","B","C","D","E","F","G","H","I","J","K","L","M","N","O","P","Q","R","S","T","U","V","W","X","Y","Z">>
LOWER ==
    <<"a","b","c","d","e","f","g","h","i","j","k","l","m","n","o","p","q","r","s","t","u","v","w","x","y","z">>
DIGITS ==
    <<"0","1","2","3","4","5","6","7","8","9">>

\* ------------------------------------------------ JavaScript value helpers

\* `T | null`: null.
None == <<>>
\* `T | null`: a T.
Some(x) == <<x>>

\* Position of character c in table t, 0 when absent.
IndexIn(t, c) ==
    IF \E k \in 1..Len(t) : t[k] = c
    THEN CHOOSE k \in 1..Len(t) : t[k] = c
    ELSE 0

IsDigit(c) == IndexIn(DIGITS, c) # 0
DigitValue(c) == IndexIn(DIGITS, c) - 1

\* First position >= from at which s holds a character of set cs; Len(s)+1
\* when there is none.
RECURSIVE IndexOfAny(_, _, _)
IndexOfAny(s, cs, from) ==
    IF from > Len(s) THEN Len(s) + 1
    ELSE IF s[from] \in cs THEN from
    ELSE IndexOfAny(s, cs, from + 1)

\* String.prototype.includes: needle occurs in s as a contiguous substring,
\* compared character by character (case matters).
Includes(s, needle) ==
    \E k \in 0..(Len(s) - Len(needle)) :
        SubSeq(s, k + 1, k + Len(needle)) = needle

\* JavaScript values that reach the snapshot's body and contentLength
\* fields: null, a number (NaN apart), an array, a plain object whose own
\* properties are <<key, value>> pairs.
JNull == [t |-> "null", n |-> 0, items |-> <<>>, props |-> {}]
JNaN == [t |-> "NaN", n |-> 0, items |-> <<>>, props |-> {}]
JNum(k) == [t |-> "number", n |-> k, items |-> <<>>, props |-> {}]
JArr(xs) == [t |-> "array", n |-> 0, items |-> xs, props |-> {}]
JObj(ps) == [t |-> "object", n |-> 0, items |-> <<>>, props |-> ps]

\* obj[key] = value on an object created by the literal {}: an ordinary
\* [[Set]].  The key "__proto__" reaches the accessor inherited from
\* Object.prototype, whose setter ignores a value that is neither an object
\* nor null, so no own property is created; every other key becomes (or
\* overwrites) an own property.
ObjAssign(ps, key, value) ==
    IF key = PROTO_KEY THEN ps
    ELSE {p \in ps : p[1] # key} \cup {<<key, value>>}

\* for (const [key, value] of entries) obj[key] = value, starting from ps.
RECURSIVE AssignAll(_, _)
AssignAll(ps, entries) ==
    IF entries = <<>> THEN ps
    ELSE AssignAll(ObjAssign(ps, entries[1][1], entries[1][2]), Tail(entries))

\* ------------------------------------------------------------- JSON.parse

\* JSON.parse over the texts the model sends: unsigned integers without a
\* leading zero, the literal null, and arrays of these, with no white space.
\* A result is [ok, val, next]: next is the position after the value.
JFail == [ok |-> FALSE, val |-> JNull, next |-> 0]

\* End (exclusive) of the run of digits of s that starts at pos.
RECURSIVE DigitsEnd(_, _)
DigitsEnd(s, pos) ==
    IF pos <= Len(s) /\ IsDigit(s[pos]) THEN DigitsEnd(s, pos + 1) ELSE pos

\* Value of the decimal digits s[from..to], acc being the value so far.
RECURSIVE DecimalValue(_, _, _, _)
DecimalValue(s, from, to, acc) ==
    IF from > to THEN acc
    ELSE DecimalValue(s, from + 1, to, 10 * acc + DigitValue(s[from]))

RECURSIVE ParseValue(_, _)
RECURSIVE ParseElements(_, _, _)

ParseValue(s, pos) ==
    IF pos > Len(s) THEN JFail
    ELSE IF s[pos] = "[" THEN
        IF pos + 1 <= Len(s) /\ s[pos + 1] = "]"
        THEN [ok |-> TRUE, val |-> JArr(<<>>), next |-> pos + 2]
        ELSE ParseElements(s, pos + 1, <<>>)
    ELSE IF s[pos] = "0" THEN [ok |-> TRUE, val |-> JNum(0), next |-> pos + 1]
    ELSE IF IsDigit(s[pos]) THEN
        LET e == DigitsEnd(s, pos)
        IN  [ok |-> TRUE, val |-> JNum(DecimalValue(s, pos, e - 1, 0)), next |-> e]
    ELSE IF pos + 3 <= Len(s) /\ SubSeq(s, pos, pos + 3) = NULL_LITERAL
    THEN [ok |-> TRUE, val |-> JNull, next |-> pos + 4]
    ELSE JFail

ParseElements(s, pos, acc) ==
    LET r == ParseValue(s, pos)
    IN  IF ~r.ok \/ r.next > Len(s) THEN JFail
        ELSE IF s[r.next] = ","
        THEN ParseElements(s, r.next + 1, Append(acc, r.val))
        ELSE IF s[r.next] = "]"
        THEN [ok |-> TRUE, val |-> JArr(Append(acc, r.val)), next |-> r.next + 1]
        ELSE JFail

\* JSON.parse(text): [ok |-> FALSE] stands for the SyntaxError it throws.
JSONParse(text) ==
    LET r == ParseValue(text, 1)
    IN  IF r.ok /\ r.next = Len(text) + 1
        THEN [ok |-> TRUE, value |-> r.val]
        ELSE [ok |-> FALSE, value |-> JNull]

\* ---------------------------------------------------------------- parseInt

\* parseInt(s, 10): leading white space is skipped, then an optional sign,
\* then the longest run of decimal digits; NaN when that run is empty.
\* Whatever follows the digits is ignored.
ParseInt10(s) ==
    LET ws == {" ", "\t"}
        RECURSIVE SkipWs(_)
        SkipWs(k) == IF k <= Len(s) /\ s[k] \in ws THEN SkipWs(k + 1) ELSE k
        b == SkipWs(1)
        signed == b <= Len(s) /\ s[b] \in {"+", "-"}
        d == IF signed THEN b + 1 ELSE b
        e == DigitsEnd(s, d)
        v == DecimalValue(s, d, e - 1, 0)
    IN  IF e = d THEN JNaN
        ELSE IF signed /\ s[b] = "-" THEN JNum(0 - v)
        ELSE JNum(v)

\* --------------------------------------------------- URL, URLSearchParams

\* Lower-case form of one character.
ToLowerChar(c) ==
    IF IndexIn(UPPER, c) # 0 THEN LOWER[IndexIn(UPPER, c)] ELSE c

\* String.prototype.toLowerCase.
ToLowerCase(s) == [k \in 1..Len(s) |-> ToLowerChar(s[k])]

\* The pieces of s between occurrences of the separator character.
RECURSIVE Split(_, _)
Split(s, sep) ==
    LET k == IndexOfAny(s, {sep}, 1)
    IN  IF k > Len(s) THEN <<s>>
        ELSE <<SubSeq(s, 1, k - 1)>> \o Split(SubSeq(s, k + 1, Len(s)), sep)

\* The character a percent escape %XY stands for, for the escapes the
\* model's URLs and bodies use.
PercentTable ==
    [h \in {<<"2","0">>, <<"2","6">>, <<"3","D">>, <<"2","5">>, <<"2","B">>} |->
        CASE h = <<"2","0">> -> " "
          [] h = <<"2","6">> -> "&"
          [] h = <<"3","D">> -> "="
          [] h = <<"2","5">> -> "%"
          [] h = <<"2","B">> -> "+"]

\* application/x-www-form-urlencoded decoding of one name or value: "+" is a
\* space, %XY is the character it escapes, a "%" that starts no escape is
\* kept.
RECURSIVE FormDecode(_)
FormDecode(s) ==
    IF s = <<>> THEN <<>>
    ELSE IF s[1] = "+" THEN <<" ">> \o FormDecode(Tail(s))
    ELSE IF s[1] = "%" /\ Len(s) >= 3 /\ SubSeq(s, 2, 3) \in DOMAIN PercentTable
    THEN <<PercentTable[SubSeq(s, 2, 3)]>> \o FormDecode(SubSeq(s, 4, Len(s)))
    ELSE <<s[1]>> \o FormDecode(Tail(s))

\* The <<name, value>> of one "&"-separated piece: split at its first "=".
FormPair(piece) ==
    LET k == IndexOfAny(piece, {"="}, 1)
    IN  <<FormDecode(SubSeq(piece, 1, k - 1)),
          FormDecode(SubSeq(piece, k + 1, Len(piece)))>>

\* new URLSearchParams(text): the ordered list of decoded <<name, value>>
\* pairs.  One leading "?" is dropped and empty pieces are skipped.
URLSearchParams(text) ==
    LET body == IF text # <<>> /\ text[1] = "?" THEN Tail(text) ELSE text
        pieces == SelectSeq(Split(body, "&"), LAMBDA p : p # <<>>)
    IN  [k \in 1..Len(pieces) |-> FormPair(pieces[k])]

\* new URL(href) for an http URL: hostname (lower-cased), port text,
\* pathname ("/" when empty) and the search parameters.
ParseURL(href) ==
    LET start == Len(HTTP_SCHEME) + 1
        authEnd == IndexOfAny(href, {"/", "?", "#"}, start)
        authority == SubSeq(href, start, authEnd - 1)
        colon == IndexOfAny(authority, {":"}, 1)
        pathEnd == IndexOfAny(href, {"?", "#"}, authEnd)
        queryEnd == IndexOfAny(href, {"#"}, pathEnd)
    IN  [hostname |-> ToLowerCase(SubSeq(authority, 1, colon - 1)),
         port |-> SubSeq(authority, colon + 1, Len(authority)),
         pathname |-> IF pathEnd = authEnd THEN <<"/">>
                      ELSE SubSeq(href, authEnd, pathEnd - 1),
         searchParams |-> URLSearchParams(SubSeq(href, pathEnd, queryEnd - 1))]

\* ---------------------------------------------------------------- requests

\* Headers.get(name): the value of the header, or null.  Header names are
\* stored lower-cased; values are kept verbatim.
HeadersGet(headers, name) ==
    IF \E p \in headers : p[1] = name
    THEN Some((CHOOSE p \in headers : p[1] = name)[2])
    ELSE None

\* A wire-level request as the transport presents it: method, url, headers
\* (a set of <<name, value>>), the body text its stream carries, whether
\* reading that stream succeeds, and the peer address the server can
\* resolve for it (null when unavailable).
MakeRequest(method, url, contentType, contentLength, userAgent, body, stream, peer) ==
    [method |-> method,
     url |-> url,
     headers |-> {<<CONTENT_TYPE, contentType[k]>> : k \in DOMAIN contentType}
                 \cup {<<CONTENT_LENGTH, contentLength[k]>> : k \in DOMAIN contentLength}
                 \cup {<<USER_AGENT, userAgent[k]>> : k \in DOMAIN userAgent},
     body |-> body,
     stream |-> stream,
     peer |-> peer]

\* ---------------------------------------------------------------- parseBody

\* The value parseBody's promise settles with; threw marks a rejection.
BodyResult(parsed, raw) == [threw |-> FALSE, parsed |-> parsed, raw |-> raw]
BodyThrow == [threw |-> TRUE, parsed |-> JNull, raw |-> None]

\* Faulty variant of IsBodylessMethod: the gate forgets OPTIONS.
IsBodylessMethodNoOptions(method) == method \in {"GET", "HEAD"}

\* request.method === "GET" || ... === "HEAD" || ... === "OPTIONS"
IsBodylessMethod(method) == method \in {"GET", "HEAD", "OPTIONS"}

\* contentType?.includes(needle)
TypeIncludes(contentType, needle) ==
    contentType # None /\ Includes(contentType[1], needle)

\* Faulty variant of IsEmptyText: the empty-body check is missing.
IsEmptyTextNever(rawBody) == FALSE

\* !rawBody || rawBody.length === 0
IsEmptyText(rawBody) == Len(rawBody) = 0

\* Faulty variant of OnReadError: no outer catch, the rejection propagates.
OnReadErrorRethrown == BodyThrow

\* Faulty variant of OnReadError: the outer catch reports an empty raw text.
OnReadErrorEmptyRaw == BodyResult(JNull, Some(<<>>))

\* The outer catch: a rejected request.text() (or anything thrown in the
\* try block) becomes {parsed: null, raw: null}.
OnReadError == BodyResult(JNull, None)

\* Faulty variant of OnJSONError: the inner catch drops the raw text.
OnJSONErrorDropsRaw(rawBody) == BodyResult(JNull, None)

\* The inner catch: a SyntaxError of JSON.parse keeps the raw text.
OnJSONError(rawBody) == BodyResult(JNull, Some(rawBody))

\* The form branch: every decoded pair assigned into a fresh {}.
FormData(rawBody) == JObj(AssignAll({}, URLSearchParams(rawBody)))

\* parseBody after request.text() resolved with rawBody.
ParseBodyText(contentType, rawBody) ==
    IF IsEmptyText(rawBody) THEN BodyResult(JNull, None)
    ELSE IF TypeIncludes(contentType, APPLICATION_JSON) THEN
        LET j == JSONParse(rawBody)
        IN  IF j.ok THEN BodyResult(j.value, Some(rawBody)) ELSE OnJSONError(rawBody)
    ELSE IF TypeIncludes(contentType, APPLICATION_FORM)
    THEN BodyResult(FormData(rawBody), Some(rawBody))
    ELSE BodyResult(JNull, Some(rawBody))

\* -------------------------------------------- parseQuery, parseHeaders

\* parseQuery(url): the parameters of url.searchParams assigned in order.
ParseQuery(url) == AssignAll({}, url.searchParams)

\* The entries of a Headers object in iteration order (sorted by name; any
\* fixed order of the distinct names gives the same assignments).
RECURSIVE HeaderEntries(_)
HeaderEntries(headers) ==
    IF headers = {} THEN <<>>
    ELSE LET p == CHOOSE q \in headers : TRUE
         IN  <<p>> \o HeaderEntries(headers \ {p})

\* parseHeaders(headers): headers.forEach((value, key) => result[key] = value)
ParseHeaders(headers) == AssignAll({}, HeaderEntries(headers))

\* ------------------------------------- createEchoResponse, handleRequest

\* server.requestIP(request)?.address ?? null
RequestIP(srv, request) == request.peer

\* request.headers.get("content-length") ? parseInt(..., 10) : null
\* (null and the empty string are falsy).
ContentLengthOf(headers) ==
    LET h == HeadersGet(headers, CONTENT_LENGTH)
    IN  IF h # None /\ h[1] # <<>> THEN ParseInt10(h[1]) ELSE JNull

\* server.hostname of the snapshot.
ServerHostname(url, srv) == url.hostname

\* The object createEchoResponse returns once parseBody has settled with
\* body, built at instant timestamp.
CreateEchoResponse(request, srv, body, timestamp) ==
    LET url == ParseURL(request.url)
        headers == ParseHeaders(request.headers)
    IN  [timestamp |-> timestamp,
         request |-> [method |-> request.method,
                      url |-> request.url,
                      path |-> url.pathname,
                      query |-> ParseQuery(url),
                      headers |-> headers,
                      body |-> body.parsed,
                      bodyRaw |-> body.raw,
                      contentType |-> HeadersGet(request.headers, CONTENT_TYPE),
                      contentLength |-> ContentLengthOf(request.headers)],
         client |-> [ip |-> RequestIP(srv, request),
                     userAgent |-> HeadersGet(request.headers, USER_AGENT)],
         server |-> [hostname |-> ServerHostname(url, srv),
                     port |-> srv.port]]

\* JSON.stringify(echoResponse, null, 2), as the JSON document the text
\* denotes: every field as it is, NaN written as null.
JSONStringify(snapshot) ==
    [snapshot EXCEPT !.request.contentLength = IF @.t = "NaN" THEN JNull ELSE @]

\* The Response handleRequest returns for a snapshot.
EchoHttpResponse(snapshot) ==
    [status |-> 200,
     headers |-> {<<"Content-Type", APPLICATION_JSON>>,
                  <<"X-Echo-Server", ECHO_SERVER_ID>>},
     body |-> JSONStringify(snapshot)]

\* ------------------------------------------------------------------ inputs

\* Every string over alphabet of length at most n.
Strings(alphabet, n) == UNION {[1..k -> alphabet] : k \in 0..n}

\* Characters of the enumerated bodies: JSON numbers and arrays, form pairs.
BodyAlphabet == {"1", "[", "]", ",", "a", "=", "&"}

FORM_REPEATED == <<"a","=","1","&","a","=","2">>

ARRAY_PAIR == <<"[","1",",","[","1","1","]","]">>

SampleBodies ==
    {<<>>, <<"1">>, <<"[","1","]">>, ARRAY_PAIR, NULL_LITERAL, INVALID_JSON,
     FORM_REPEATED}

Bodies == Strings(BodyAlphabet, MaxBody) \cup SampleBodies

Methods == {"GET", "HEAD", "OPTIONS", "POST", "PUT"}

ContentTypes ==
    {None, Some(APPLICATION_JSON), Some(APPLICATION_JSON \o CHARSET_PARAM),
     Some(MIXED_CASE_JSON), Some(APPLICATION_FORM), Some(UPPER_CASE_FORM),
     Some(TEXT_PLAIN)}

ContentLengths ==
    {None, Some(<<>>), Some(<<"0">>), Some(<<"2","7">>), Some(<<"0","0","7">>),
     Some(<<"a","b","c">>), Some(<<"1","2","a","b","c">>), Some(<<"1",".","5">>),
     Some(<<"-","5">>), Some(<<"+","7">>)}

UserAgents == {None, Some(CURL_AGENT)}
Peers == {None, Some(LOOPBACK)}

PORT_SUFFIX == <<":","3","0","0","0">>

Hosts == {LOCALHOST, ANY_ADDRESS, LOCALHOST \o PORT_SUFFIX, ANY_ADDRESS \o PORT_SUFFIX}
\* A Request's url is a serialized URL: its path is never empty.
Paths == {<<"/">>, PATH_TEST, PATH_USERS}

QueryKeys == {<<"a">>, <<"b">>, PROTO_KEY}
QueryValues == {<<"1">>, <<"2">>}

\* Ordered lists of at most MaxParams <<key, value>> parameters.
ParamLists == UNION {[1..k -> QueryKeys \X QueryValues] : k \in 0..MaxParams}

\* The query string a client writes for a list of parameters (none of the
\* keys and values above needs escaping): "" for the empty list.
RECURSIVE JoinParams(_)
JoinParams(list) ==
    IF list = <<>> THEN <<>>
    ELSE list[1][1] \o <<"=">> \o list[1][2]
         \o (IF Len(list) > 1 THEN <<"&">> \o JoinParams(Tail(list)) ELSE <<>>)

QueryOf(list) == IF list = <<>> THEN <<>> ELSE <<"?">> \o JoinParams(list)

Searches == {QueryOf(l) : l \in ParamLists} \cup {<<"?">>, ENCODED_QUERY}

DefaultUrl == HTTP_SCHEME \o LOCALHOST \o PORT_SUFFIX \o PATH_TEST

\* Requests that vary the body under every content type.
BodyRequests ==
    {MakeRequest("POST", DefaultUrl, ct, None, None, b, "ok", Some(LOOPBACK)) :
        ct \in ContentTypes, b \in Bodies}

\* Requests that vary the method and the outcome of the body read.
MethodRequests ==
    {MakeRequest(m, DefaultUrl, ct, None, None, b, st, Some(LOOPBACK)) :
        m \in Methods, ct \in ContentTypes, b \in SampleBodies, st \in {"ok", "error"}}

\* Requests that vary the content-length and user-agent headers and the
\* availability of the peer address.
HeaderRequests ==
    {MakeRequest(m, DefaultUrl, Some(APPLICATION_JSON), cl, ua, <<"1">>, st, peer) :
        m \in {"GET", "POST"}, cl \in ContentLengths, ua \in UserAgents,
        st \in {"ok", "error"}, peer \in Peers}

\* Requests that vary the URL: host, path and query string.
UrlRequests ==
    {MakeRequest("GET", HTTP_SCHEME \o h \o pa \o q, None, None, None, <<>>, "ok", Some(LOOPBACK)) :
        h \in Hosts, pa \in Paths, q \in Searches}

Requests == BodyRequests \cup MethodRequests \cup HeaderRequests \cup UrlRequests

\* The requests in flight together in SpecConc.
ConcRequests ==
    {MakeRequest("GET", DefaultUrl, Some(APPLICATION_JSON), None, None, <<"1">>, "ok", None),
     MakeRequest("POST", DefaultUrl, Some(APPLICATION_JSON), Some(<<"1">>), None, <<"1">>, "ok", Some(LOOPBACK)),
     MakeRequest("POST", DefaultUrl, Some(APPLICATION_JSON), None, None, INVALID_JSON, "ok", Some(LOOPBACK)),
     MakeRequest("POST", HTTP_SCHEME \o ANY_ADDRESS \o PATH_USERS \o QueryOf(<<<<<<"a">>, <<"1">>>>>>),
                 Some(APPLICATION_FORM), None, Some(CURL_AGENT), FORM_REPEATED, "ok", Some(LOOPBACK)),
     MakeRequest("PUT", DefaultUrl, Some(TEXT_PLAIN), None, None, <<"a">>, "error", Some(LOOPBACK)),
     MakeRequest("PUT", DefaultUrl, Some(TEXT_PLAIN), None, None, <<"a">>, "ok", Some(LOOPBACK))}

\* PORT and HOSTNAME of the environment: the defaults, and the README's
\* example (PORT=8080 HOSTNAME=127.0.0.1).
DefaultPort == 3000
ExamplePort == 8080
ServerBindings ==
    {[hostname |-> ANY_ADDRESS, port |-> DefaultPort],
     [hostname |-> LOOPBACK, port |-> ExamplePort]}

\* ------------------------------------------------------------------- state

VARIABLES
    server,      \* the binding Bun.serve created: [hostname, port]
    now,         \* the wall clock read by new Date()
    pc,          \* per invocation: "idle", "reading", "resumed", "done", "rejected"
    request,     \* per invocation: null, or the Request being handled
    bodyUsed,    \* per invocation: Request.bodyUsed (request.text() was called)
    bodyResult,  \* per invocation: null, or what await parseBody(request) gave
    echo,        \* per invocation: null, or the snapshot createEchoResponse returned
    response     \* per invocation: null, or the Response handleRequest returned

vars == <<server, now, pc, request, bodyUsed, bodyResult, echo, response>>

Invocations == DOMAIN pc

\* The server is bound and n invocations can be in flight, none started.
InitWith(n) ==
    /\ server \in ServerBindings
    /\ now = 0
    /\ pc = [i \in 1..n |-> "idle"]
    /\ request = [i \in 1..n |-> None]
    /\ bodyUsed = [i \in 1..n |-> FALSE]
    /\ bodyResult = [i \in 1..n |-> None]
    /\ echo = [i \in 1..n |-> None]
    /\ response = [i \in 1..n |-> None]

Init == InitWith(1)
InitConc == InitWith(MaxInFlight)

\* Faulty variant of AwaitedBody: the result is kept in one place shared by all
\* invocations, so an invocation may pick up the result another one left.
AwaitedBodyShared(i) ==
    bodyResult[CHOOSE j \in Invocations :
                  /\ bodyResult[j] # None
                  /\ \A k \in Invocations : bodyResult[k] # None => j <= k][1]

\* What await parseBody(request) gives invocation i: the result is local to
\* the invocation.
AwaitedBody(i) == bodyResult[i][1]

\* fetch(request, server): handleRequest calls createEchoResponse, which
\* builds the URL and calls parseBody.  parseBody reads the content-type and
\* either returns {null, null} at the method gate or calls request.text()
\* and suspends until the body is buffered.
Fetch(i, r) ==
    /\ pc[i] = "idle"
    /\ request' = [request EXCEPT ![i] = Some(r)]
    /\ IF IsBodylessMethod(r.method)
       THEN /\ pc' = [pc EXCEPT ![i] = "resumed"]
            /\ bodyResult' = [bodyResult EXCEPT ![i] = Some(BodyResult(JNull, None))]
            /\ UNCHANGED bodyUsed
       ELSE /\ pc' = [pc EXCEPT ![i] = "reading"]
            /\ bodyUsed' = [bodyUsed EXCEPT ![i] = TRUE]
            /\ UNCHANGED bodyResult
    /\ UNCHANGED <<server, now, echo, response>>

\* request.text() resolves with the buffered text; parseBody runs to its
\* return.
ReadResolve(i) ==
    /\ pc[i] = "reading"
    /\ request[i][1].stream = "ok"
    /\ bodyResult' = [bodyResult EXCEPT ![i] =
           Some(ParseBodyText(HeadersGet(request[i][1].headers, CONTENT_TYPE),
                              request[i][1].body))]
    /\ pc' = [pc EXCEPT ![i] = "resumed"]
    /\ UNCHANGED <<server, now, request, bodyUsed, echo, response>>

\* request.text() rejects (stream or transfer-encoding error); the outer
\* catch of parseBody runs.
ReadReject(i) ==
    /\ pc[i] = "reading"
    /\ request[i][1].stream = "error"
    /\ bodyResult' = [bodyResult EXCEPT ![i] = Some(OnReadError)]
    /\ pc' = [pc EXCEPT ![i] = "resumed"]
    /\ UNCHANGED <<server, now, request, bodyUsed, echo, response>>

\* createEchoResponse resumes after await parseBody: it builds the snapshot
\* at the current instant, and handleRequest wraps it in the Response.  A
\* rejection of parseBody would propagate through both.
Respond(i) ==
    /\ pc[i] = "resumed"
    /\ \E t \in now..MaxClock :
        /\ now' = t
        /\ IF AwaitedBody(i).threw
           THEN /\ pc' = [pc EXCEPT ![i] = "rejected"]
                /\ UNCHANGED <<echo, response>>
           ELSE LET snapshot == CreateEchoResponse(request[i][1], server, AwaitedBody(i), t)
                IN  /\ echo' = [echo EXCEPT ![i] = Some(snapshot)]
                    /\ response' = [response EXCEPT ![i] = Some(EchoHttpResponse(snapshot))]
                    /\ pc' = [pc EXCEPT ![i] = "done"]
    /\ UNCHANGED <<server, request, bodyUsed, bodyResult>>

\* The runtime has sent the response; the invocation's objects are dropped.
Release(i) ==
    /\ pc[i] = "done"
    /\ pc' = [pc EXCEPT ![i] = "idle"]
    /\ request' = [request EXCEPT ![i] = None]
    /\ bodyUsed' = [bodyUsed EXCEPT ![i] = FALSE]
    /\ bodyResult' = [bodyResult EXCEPT ![i] = None]
    /\ echo' = [echo EXCEPT ![i] = None]
    /\ response' = [response EXCEPT ![i] = None]
    /\ UNCHANGED <<server, now>>

\* Bun.serve hands an arriving request to a free invocation.
Accept ==
    \E i \in Invocations : pc[i] = "idle" /\ \E r \in Requests : Fetch(i, r)
AcceptConc ==
    \E i \in Invocations : pc[i] = "idle" /\ \E r \in ConcRequests : Fetch(i, r)
Resolve == \E i \in Invocations : ReadResolve(i)
Reject == \E i \in Invocations : ReadReject(i)
Complete == \E i \in Invocations : Respond(i)
Send == \E i \in Invocations : Release(i)

Next == Accept \/ Resolve \/ Reject \/ Complete \/ Send
NextConc == AcceptConc \/ Resolve \/ Reject \/ Complete \/ Send

Spec == Init /\ [][Next]_vars
SpecConc == InitConc /\ [][NextConc]_vars

\* ================================================================== claims

\* The request and the snapshot of an invocation that has them.
Req(i) == request[i][1]
Snap(i) == echo[i][1]
Settled(i) == bodyResult[i] # None
Built(i) == echo[i] # None
ReadsBody(i) == request[i] # None /\ Req(i).method \notin {"GET", "HEAD", "OPTIONS"}
DeclaredType(i) == HeadersGet(Req(i).headers, CONTENT_TYPE)

\* C1: for a request whose method is GET, HEAD or OPTIONS, parseBody gives
\* parsed = null and raw = null whatever body and content-type it carries,
\* the snapshot's body and bodyRaw are null, and request.text() is never
\* called (the body stream stays unconsumed).
C1_MethodGateSkipsBody ==
    \A i \in Invocations :
        (request[i] # None /\ Req(i).method \in {"GET", "HEAD", "OPTIONS"}) =>
            /\ ~bodyUsed[i]
            /\ pc[i] # "reading"
            /\ Settled(i) => AwaitedBody(i) = [threw |-> FALSE, parsed |-> JNull, raw |-> None]
            /\ Built(i) => Snap(i).request.body = JNull /\ Snap(i).request.bodyRaw = None

\* C1 witness: an OPTIONS request that carries the JSON body "1" under
\* content-type application/json has been answered with both fields null.
C1_Witness ==
    \E i \in Invocations :
        /\ pc[i] = "done"
        /\ Req(i).method = "OPTIONS"
        /\ Req(i).body = <<"1">>
        /\ DeclaredType(i) = Some(APPLICATION_JSON)
        /\ Snap(i).request.bodyRaw = None
        /\ ~bodyUsed[i]

\* C2: handleRequest never raises and, whenever it has completed, its
\* response has status 200, Content-Type: application/json and
\* X-Echo-Server: http-echo-server/1.0.0; an invocation in flight always
\* meets the guard of its next step towards that response (its read
\* resolves or rejects, and a settled parseBody lets it respond).
C2_AlwaysResponds200 ==
    \A i \in Invocations :
        /\ pc[i] # "rejected"
        /\ pc[i] = "reading" => Req(i).stream \in {"ok", "error"}
        /\ pc[i] = "resumed" => Settled(i) /\ now <= MaxClock
        /\ pc[i] = "done" =>
            /\ response[i] # None
            /\ response[i][1].status = 200
            /\ <<"Content-Type", APPLICATION_JSON>> \in response[i][1].headers
            /\ <<"X-Echo-Server", ECHO_SERVER_ID>> \in response[i][1].headers

\* C2 witness: a POST whose body read failed, whose content-length is the
\* non-numeric "abc" and whose client address is unavailable was answered
\* with status 200.
C2_Witness ==
    \E i \in Invocations :
        /\ pc[i] = "done"
        /\ Req(i).method = "POST"
        /\ Req(i).stream = "error"
        /\ Req(i).peer = None
        /\ HeadersGet(Req(i).headers, CONTENT_LENGTH) = Some(<<"a","b","c">>)
        /\ response[i][1].status = 200

\* JSON texts over the model's characters, by the grammar: a number is a
\* non-empty run of digits with no leading zero, a value is a number, null
\* or a bracketed, comma-separated list of values.
IsJSONNumber(s) ==
    /\ s # <<>>
    /\ \A k \in 1..Len(s) : s[k] \in {"0","1","2","3","4","5","6","7","8","9"}
    /\ Len(s) > 1 => s[1] # "0"

RECURSIVE IsJSONValue(_)
RECURSIVE IsJSONElements(_)
IsJSONValue(s) ==
    \/ IsJSONNumber(s)
    \/ s = <<"n","u","l","l">>
    \/ /\ Len(s) >= 2
       /\ s[1] = "["
       /\ s[Len(s)] = "]"
       /\ Len(s) = 2 \/ IsJSONElements(SubSeq(s, 2, Len(s) - 1))
IsJSONElements(s) ==
    \/ IsJSONValue(s)
    \/ \E k \in 1..Len(s) :
        /\ s[k] = ","
        /\ IsJSONValue(SubSeq(s, 1, k - 1))
        /\ IsJSONElements(SubSeq(s, k + 1, Len(s)))

\* The decimal digits of a natural number.
RECURSIVE Decimal(_)
Decimal(n) ==
    IF n < 10 THEN <<DIGITS[n + 1]>>
    ELSE Decimal(n \div 10) \o <<DIGITS[(n % 10) + 1]>>

\* The compact JSON text of a value (null, natural number or array).
RECURSIVE JSONText(_)
RECURSIVE JSONTextList(_)
JSONText(v) ==
    CASE v.t = "null" -> <<"n","u","l","l">>
      [] v.t = "number" -> Decimal(v.n)
      [] v.t = "array" -> <<"[">> \o JSONTextList(v.items) \o <<"]">>
      [] OTHER -> <<"?">>
JSONTextList(xs) ==
    IF xs = <<>> THEN <<>>
    ELSE IF Len(xs) = 1 THEN JSONText(xs[1])
    ELSE JSONText(xs[1]) \o <<",">> \o JSONTextList(Tail(xs))

\* C3: for a non-empty body that was read on a non-GET/HEAD/OPTIONS request
\* whose content-type contains application/json, raw is the body text
\* verbatim; parsed is the value the text denotes (its JSON text is the body
\* again) when the body is valid JSON, and null when it is not.
C3_JsonBodyParsedRawKept ==
    \A i \in Invocations :
        (/\ ReadsBody(i)
         /\ Settled(i)
         /\ Req(i).stream = "ok"
         /\ Req(i).body # <<>>
         /\ DeclaredType(i) # None
         /\ Includes(DeclaredType(i)[1], APPLICATION_JSON)) =>
            /\ ~AwaitedBody(i).threw
            /\ AwaitedBody(i).raw = Some(Req(i).body)
            /\ IF IsJSONValue(Req(i).body)
               THEN JSONText(AwaitedBody(i).parsed) = Req(i).body
               ELSE AwaitedBody(i).parsed = JNull
            /\ Built(i) =>
                /\ Snap(i).request.bodyRaw = Some(Req(i).body)
                /\ Snap(i).request.body = AwaitedBody(i).parsed

\* C3 witness: the body "invalid json {" sent as application/json has been
\* answered with body null and bodyRaw "invalid json {".
C3_Witness ==
    \E i \in Invocations :
        /\ pc[i] = "done"
        /\ Req(i).method = "POST"
        /\ Req(i).stream = "ok"
        /\ Req(i).body = INVALID_JSON
        /\ DeclaredType(i) = Some(APPLICATION_JSON)
        /\ Snap(i).request.body = JNull
        /\ Snap(i).request.bodyRaw = Some(INVALID_JSON)

\* C4: the content-type dispatch is a case-insensitive substring match: for
\* every non-empty body that was read, the declared content-type selects
\* the same parsing branch, hence gives the same result, as its
\* all-lower-case form does.
C4_DispatchIgnoresCase ==
    \A i \in Invocations :
        (/\ ReadsBody(i)
         /\ Settled(i)
         /\ Req(i).stream = "ok"
         /\ Req(i).body # <<>>
         /\ DeclaredType(i) # None) =>
            AwaitedBody(i) =
                ParseBodyText(Some(ToLowerCase(DeclaredType(i)[1])), Req(i).body)

\* A base-10 integer: an optional sign, then one or more decimal digits and
\* nothing else.
IsBase10Integer(s) ==
    LET d == IF s # <<>> /\ s[1] \in {"+", "-"} THEN Tail(s) ELSE s
    IN  /\ d # <<>>
        /\ \A k \in 1..Len(d) : d[k] \in {"0","1","2","3","4","5","6","7","8","9"}

\* C5: in every snapshot, request.contentLength is null when the
\* content-length header is absent or its value is not a base-10 integer,
\* and is otherwise the integer the header declares (never a non-null
\* non-integer value).
C5_ContentLengthNullOrInteger ==
    \A i \in Invocations :
        Built(i) =>
            LET h == HeadersGet(Req(i).headers, CONTENT_LENGTH)
                cl == Snap(i).request.contentLength
            IN  IF h = None \/ ~IsBase10Integer(h[1])
                THEN cl = JNull
                ELSE cl.t = "number" /\ cl = ParseInt10(h[1])

\* C6: in every snapshot, server.hostname and server.port are the hostname
\* and port of the server binding, whatever the request's URL.
C6_ServerIdentityFromBinding ==
    \A i \in Invocations :
        Built(i) =>
            /\ Snap(i).server.hostname = server.hostname
            /\ Snap(i).server.port = server.port

\* C7: in every result of parseBody and in every snapshot built from it,
\* raw = null implies parsed = null and parsed # null implies raw # null;
\* an empty body that was read gives both null, on any method.
C7_RawNullImpliesParsedNull ==
    \A i \in Invocations :
        /\ Settled(i) =>
            /\ AwaitedBody(i).raw = None => AwaitedBody(i).parsed = JNull
            /\ AwaitedBody(i).parsed # JNull => AwaitedBody(i).raw # None
            /\ Req(i).body = <<>> =>
                AwaitedBody(i).raw = None /\ AwaitedBody(i).parsed = JNull
        /\ Built(i) =>
            /\ Snap(i).request.bodyRaw = None => Snap(i).request.body = JNull
            /\ Snap(i).request.body # JNull => Snap(i).request.bodyRaw # None
            /\ Req(i).body = <<>> =>
                Snap(i).request.bodyRaw = None /\ Snap(i).request.body = JNull

\* C7 witness: a POST with an empty body declared as form data has been read
\* and answered with body and bodyRaw both null.
C7_Witness ==
    \E i \in Invocations :
        /\ pc[i] = "done"
        /\ Req(i).method = "POST"
        /\ Req(i).stream = "ok"
        /\ bodyUsed[i]
        /\ Req(i).body = <<>>
        /\ DeclaredType(i) = Some(APPLICATION_FORM)
        /\ Snap(i).request.body = JNull
        /\ Snap(i).request.bodyRaw = None

\* C8: when the body read fails on a request whose method is not GET, HEAD
\* or OPTIONS, parseBody gives {parsed: null, raw: null} whatever the
\* content-type, and the failure reaches neither createEchoResponse nor
\* handleRequest: the invocation is never rejected and its snapshot has
\* body and bodyRaw null.
C8_ReadFailureSwallowed ==
    \A i \in Invocations :
        (ReadsBody(i) /\ Req(i).stream = "error") =>
            /\ pc[i] # "rejected"
            /\ Settled(i) => AwaitedBody(i) = [threw |-> FALSE, parsed |-> JNull, raw |-> None]
            /\ Built(i) => Snap(i).request.body = JNull /\ Snap(i).request.bodyRaw = None
            /\ pc[i] = "done" => response[i] # None

\* C8 witness: a PUT declared as application/json whose body "[1]" could not
\* be read has been answered, with body and bodyRaw null.
C8_Witness ==
    \E i \in Invocations :
        /\ pc[i] = "done"
        /\ Req(i).method = "PUT"
        /\ Req(i).stream = "error"
        /\ bodyUsed[i]
        /\ Req(i).body = <<"[","1","]">>
        /\ DeclaredType(i) = Some(APPLICATION_JSON)
        /\ Snap(i).request.bodyRaw = None
        /\ response[i] # None

\* C9: for every ordered list of decoded query parameters, the snapshot's
\* query has exactly the keys that occur in the list, each with the value of
\* its last occurrence; an absent or empty query string gives the empty
\* mapping.
C9_QueryLastWins ==
    \A i \in Invocations :
        Built(i) =>
            LET params == ParseURL(Req(i).url).searchParams
                query == Snap(i).request.query
            IN  /\ {p[1] : p \in query} = {params[k][1] : k \in 1..Len(params)}
                /\ \A p \in query :
                    \E k \in 1..Len(params) :
                        /\ params[k] = p
                        /\ \A m \in (k + 1)..Len(params) : params[m][1] # p[1]
                /\ params = <<>> => query = {}

\* The snapshot r gives when it is the only request handled.
AloneSnapshot(r, srv) ==
    CreateEchoResponse(r, srv,
        IF r.method \in {"GET", "HEAD", "OPTIONS"} THEN BodyResult(JNull, None)
        ELSE IF r.stream = "error" THEN BodyResult(JNull, None)
        ELSE ParseBodyText(HeadersGet(r.headers, CONTENT_TYPE), r.body),
        0)

\* C10: with several invocations interleaved at the body read and finishing
\* in any order, each snapshot, its timestamp apart, is the snapshot its own
\* request gives when handled alone.
C10_SnapshotIndependent ==
    \A i \in Invocations :
        Built(i) =>
            [Snap(i) EXCEPT !.timestamp = 0] = AloneSnapshot(Req(i), server)

\* C10 witness: invocation 2 has finished a form POST while invocation 1,
\* handling a different request, is still suspended at its body read.
C10_Witness ==
    /\ Cardinality(Invocations) >= 2
    /\ pc[1] = "reading"
    /\ pc[2] = "done"
    /\ Req(1) # Req(2)
    /\ Req(2).body = FORM_REPEATED
    /\ Snap(2).request.body = JObj({<<<<"a">>, <<"2">>>>})

====
